---------------------------- MODULE Spec2Model ----------------------------
(***************************************************************************)
(* Model of the Yahoo data feeds of backtrader/feeds:                      *)
(*   - YahooFinanceCSVData._loadline  (yahoo.py 111-179): the CSV parser   *)
(*     with its null-resolution loop and the adjustment reconciliation;    *)
(*   - YahooFetcher.fetch_data        (yahoo.py 202-251): the API document *)
(*     normalizer;                                                         *)
(*   - YahooFinanceData.start/_load   (yahoo.py 308-347): the cursor over  *)
(*     the fetched series, with Bar.to_lines (base.py 21-30).              *)
(*                                                                         *)
(* Numbers: a Python float is modelled by the exact rational it stands     *)
(* for, a record [n |-> numerator, d |-> denominator] in lowest terms with *)
(* d > 0, so that equality of values is equality of records.  round() is   *)
(* round-half-even on that exact value.                                    *)
(***************************************************************************)
EXTENDS Integers, Sequences, FiniteSets, TLC

VARIABLES
    p,        \* CSV feed: self.params of YahooFinanceCSVData
    f,        \* CSV feed: the lines still held by the Line Source (self.f)
    lines,    \* CSV feed: self.lines, slot [0] of every output line
    ret,      \* CSV feed: outcome of the last load call
    call,     \* CSV feed: the input of the last load call (history)
    fp,       \* API feed: self.p of YahooFinanceData (fromdate/todate given?)
    doc,      \* API feed: the document the upstream answers the request with
    _bars,    \* API feed: self._bars
    _idx,     \* API feed: self._idx
    flines,   \* API feed: self.lines, slot [0] of every output line
    fret,     \* API feed: outcome of the last start/_load call
    fhist     \* API feed: calls made since the last start() (history)

csvvars == <<p, f, lines, ret, call>>
feedvars == <<fp, doc, _bars, _idx, flines, fret, fhist>>
vars == <<p, f, lines, ret, call, fp, doc, _bars, _idx, flines, fret, fhist>>

-----------------------------------------------------------------------------
(* Bounds of the model *)

\* lines held by the Line Source at construction
MaxLines == 3
\* positions of the timestamp array of an API document
MaxBars == 3
\* _load calls made after one start(): two more than there can be bars
MaxLoads == MaxBars + 2
\* start() calls made on one feed
MaxStarts == 2

-----------------------------------------------------------------------------
(* Exact arithmetic standing for Python floats *)

Abs(x) == IF x < 0 THEN -x ELSE x

RECURSIVE GCD(_, _)
GCD(a, b) == IF b = 0 THEN a ELSE GCD(b, a % b)

\* not-a-number: the content of an output slot nothing was written to, and
\* what arithmetic on a NaN gives
NaN == [n |-> 0, d |-> 0]

\* the rational n/d in lowest terms with a positive denominator; NaN when d
\* is zero, so that every operation below propagates a NaN operand
Norm(n, d) ==
    IF d = 0 THEN NaN
    ELSE LET g == GCD(Abs(n), Abs(d))
             s == IF d < 0 THEN -1 ELSE 1
         IN  [n |-> (s * n) \div g, d |-> (s * d) \div g]

Int2Rat(i) == [n |-> i, d |-> 1]
Zero == Int2Rat(0)

RMul(a, b) == Norm(a.n * b.n, a.d * b.d)
\* difference, absolute value and order, for the tolerances of the properties
RSub(a, b) == Norm(a.n * b.d - b.n * a.d, a.d * b.d)
RAbs(a) == [n |-> Abs(a.n), d |-> a.d]
RLeq(a, b) == a.n * b.d <= b.n * a.d

RECURSIVE Pow10(_)
Pow10(k) == IF k = 0 THEN 1 ELSE 10 * Pow10(k - 1)

\* Python's a / b on floats: ZeroDivisionError when b is zero
DivRaises(a, b) == b.n = 0
TrueDiv(a, b) == Norm(a.n * b.d, a.d * b.n)

\* Python's round(x, ndigits), ndigits >= 0: to the nearest multiple of
\* 10^-ndigits, a tie going to the even one
round(x, ndigits) ==
    IF x.d = 0 THEN NaN
    ELSE LET s  == Pow10(ndigits)
             qi == x.n \div x.d
             ri == x.n % x.d
             t  == (ri * s) \div x.d
             rm == (ri * s) % x.d
             u  == qi * s + t
             up == (2 * rm > x.d) \/ (2 * rm = x.d /\ u % 2 = 1)
         IN  Norm(IF up THEN u + 1 ELSE u, s)

-----------------------------------------------------------------------------
(* CSV tokens.  A line is the sequence of its seven tokens                 *)
(* <<date, open, high, low, close, adjusted_close, volume>>.               *)

\* a decimal numeral: the digits of m with the point e places from the right
Num(m, e) == [k |-> "num", m |-> m, e |-> e]
\* the literal token 'null'
Null == [k |-> "null", m |-> 0, e |-> 0]
\* a token that is neither a numeral nor 'null' (an empty field, 'N/A')
Junk == [k |-> "junk", m |-> 0, e |-> 0]
\* the token YYYY-MM-DD
DateTok(y, m, d) == [y |-> y, m |-> m, d |-> d]

\* float(tok): ValueError unless the token is a numeral
FloatRaises(tok) == tok.k # "num"
float(tok) == Norm(tok.m, Pow10(tok.e))

\* the datetime slot nothing was written to
NaNDate == [int |-> 0, frac |-> NaN]

IsLeap(y) == (y % 4 = 0) /\ ((y % 100 # 0) \/ (y % 400 = 0))
DaysInMonth(y, m) ==
    IF m = 2 THEN (IF IsLeap(y) THEN 29 ELSE 28)
    ELSE IF m \in {4, 6, 9, 11} THEN 30 ELSE 31

RECURSIVE DaysBeforeMonth(_, _)
DaysBeforeMonth(y, m) ==
    IF m = 1 THEN 0 ELSE DaysBeforeMonth(y, m - 1) + DaysInMonth(y, m - 1)

\* date(y, m, d): ValueError when the month or the day is out of range
DateRaises(tok) == ~(tok.m \in 1..12 /\ tok.d \in 1..DaysInMonth(tok.y, tok.m))

\* date.toordinal(): days since 0001-01-01, that day being 1
ToOrdinal(y, m, d) ==
    (y - 1) * 365 + ((y - 1) \div 4) - ((y - 1) \div 100) + ((y - 1) \div 400)
    + DaysBeforeMonth(y, m) + d

\* date2num of a datetime given as (ordinal day, second of the day): the day
\* number with the time of day as its fraction
date2num(ord, tod) == [int |-> ord, frac |-> Norm(tod, 86400)]

-----------------------------------------------------------------------------
(* YahooFinanceCSVData._loadline *)

\* mutant of HasNull: the scan starts one column late (linetokens[2:])
HasNull_FromHigh(linetokens) == \E i \in 3..Len(linetokens) : linetokens[i] = Null

\* for tok in linetokens[1:]: if tok == 'null'
HasNull(linetokens) == \E i \in 2..Len(linetokens) : linetokens[i] = Null

\* the Line Source: the next tokenized line, or None (here <<>>) when exhausted
_getnextline(src) ==
    IF src = <<>> THEN [linetokens |-> <<>>, src |-> src]
    ELSE [linetokens |-> Head(src), src |-> Tail(src)]

\* mutant of NullScan: when the source is exhausted the loop is left with the
\* line it had (the return False missing)
RECURSIVE NullScan_KeepsLast(_, _)
NullScan_KeepsLast(linetokens, src) ==
    IF HasNull(linetokens)
    THEN LET nxt == _getnextline(src)
         IN  IF nxt.linetokens = <<>>
             THEN [ok |-> TRUE, linetokens |-> linetokens, src |-> nxt.src]
             ELSE NullScan_KeepsLast(nxt.linetokens, nxt.src)
    ELSE [ok |-> TRUE, linetokens |-> linetokens, src |-> src]

\* mutant of NullScan: two lines are fetched for a discarded line
RECURSIVE NullScan_SkipsExtra(_, _)
NullScan_SkipsExtra(linetokens, src) ==
    IF HasNull(linetokens)
    THEN LET nxt == _getnextline(_getnextline(src).src)
         IN  IF nxt.linetokens = <<>>
             THEN [ok |-> FALSE, linetokens |-> <<>>, src |-> nxt.src]
             ELSE NullScan_SkipsExtra(nxt.linetokens, nxt.src)
    ELSE [ok |-> TRUE, linetokens |-> linetokens, src |-> src]

\* the while True loop: a line holding a null is replaced by the next line of
\* the source, until a line holds none (ok) or the source is exhausted
RECURSIVE NullScan(_, _)
NullScan(linetokens, src) ==
    IF HasNull(linetokens)
    THEN LET nxt == _getnextline(src)
         IN  IF nxt.linetokens = <<>>
             THEN [ok |-> FALSE, linetokens |-> <<>>, src |-> nxt.src]
             ELSE NullScan(nxt.linetokens, nxt.src)
    ELSE [ok |-> TRUE, linetokens |-> linetokens, src |-> src]

\* try: v = float(...) except: v = 0.0
ParseVolume(tok) == IF FloatRaises(tok) THEN Zero ELSE float(tok)

\* mutant of SwapCloses: an assignment after the other instead of an exchange
\* (c = adjustedclose; adjustedclose = c)
SwapCloses_OneWay(prm, c, adjustedclose) ==
    IF prm.swapcloses THEN [c |-> adjustedclose, adjustedclose |-> adjustedclose]
    ELSE [c |-> c, adjustedclose |-> adjustedclose]

\* if self.p.swapcloses: c, adjustedclose = adjustedclose, c
SwapCloses(prm, c, adjustedclose) ==
    IF prm.swapcloses THEN [c |-> adjustedclose, adjustedclose |-> c]
    ELSE [c |-> c, adjustedclose |-> adjustedclose]

\* mutant of AdjustRaises: the zero test looks at the close, not at the
\* adjusted close
AdjustRaises_OnClose(prm, c, adjustedclose) == prm.adjclose /\ c.n = 0

\* adjfactor = c / adjustedclose raises on a zero adjustedclose; with adjclose
\* o /= adjfactor raises on a zero adjfactor
AdjustRaises(prm, c, adjustedclose) ==
    \/ DivRaises(c, adjustedclose)
    \/ prm.adjclose /\ DivRaises(c, TrueDiv(c, adjustedclose))

\* mutant of Adjust: the close is left as it was (c = adjustedclose missing)
Adjust_KeepsClose(prm, o, h, l, c, adjustedclose, v) ==
    LET adjfactor == TrueDiv(c, adjustedclose)
    IN  IF prm.adjclose
        THEN [o |-> TrueDiv(o, adjfactor), h |-> TrueDiv(h, adjfactor),
              l |-> TrueDiv(l, adjfactor), c |-> c,
              v |-> IF prm.adjvolume THEN RMul(v, adjfactor) ELSE v]
        ELSE [o |-> o, h |-> h, l |-> l, c |-> c, v |-> v]

\* mutant of Adjust: the prices are multiplied by the factor (o *= adjfactor)
Adjust_Multiplies(prm, o, h, l, c, adjustedclose, v) ==
    LET adjfactor == TrueDiv(c, adjustedclose)
    IN  IF prm.adjclose
        THEN [o |-> RMul(o, adjfactor), h |-> RMul(h, adjfactor),
              l |-> RMul(l, adjfactor), c |-> adjustedclose,
              v |-> IF prm.adjvolume THEN RMul(v, adjfactor) ELSE v]
        ELSE [o |-> o, h |-> h, l |-> l, c |-> c, v |-> v]

\* mutant of Adjust: the volume is adjusted outside the adjclose branch
Adjust_VolumeAlways(prm, o, h, l, c, adjustedclose, v) ==
    LET adjfactor == TrueDiv(c, adjustedclose)
        va == IF prm.adjvolume THEN RMul(v, adjfactor) ELSE v
    IN  IF prm.adjclose
        THEN [o |-> TrueDiv(o, adjfactor), h |-> TrueDiv(h, adjfactor),
              l |-> TrueDiv(l, adjfactor), c |-> adjustedclose, v |-> va]
        ELSE [o |-> o, h |-> h, l |-> l, c |-> c, v |-> va]

\* mutant of Adjust: the adjustment is applied whatever adjclose is
Adjust_Always(prm, o, h, l, c, adjustedclose, v) ==
    LET adjfactor == TrueDiv(c, adjustedclose)
    IN  [o |-> TrueDiv(o, adjfactor), h |-> TrueDiv(h, adjfactor),
         l |-> TrueDiv(l, adjfactor), c |-> adjustedclose,
         v |-> IF prm.adjvolume THEN RMul(v, adjfactor) ELSE v]

\* if self.params.adjclose: ... (o, h, l, c, v after the adjustment)
Adjust(prm, o, h, l, c, adjustedclose, v) ==
    LET adjfactor == TrueDiv(c, adjustedclose)
    IN  IF prm.adjclose
        THEN [o |-> TrueDiv(o, adjfactor), h |-> TrueDiv(h, adjfactor),
              l |-> TrueDiv(l, adjfactor), c |-> adjustedclose,
              v |-> IF prm.adjvolume THEN RMul(v, adjfactor) ELSE v]
        ELSE [o |-> o, h |-> h, l |-> l, c |-> c, v |-> v]

\* if self.p.round: o = round(o, decimals) ...
RoundPrice(prm, x) == IF prm.round THEN round(x, prm.decimals) ELSE x

\* mutant of RoundVolume: a roundvolume of 0 leaves the volume unrounded
RoundVolume_SkipsZero(prm, v) ==
    IF prm.roundvolume = 0 THEN v ELSE round(v, prm.roundvolume)

\* v = round(v, self.p.roundvolume)
RoundVolume(prm, v) == round(v, prm.roundvolume)

\* lines 127-179: field extraction, adjustment, rounding and the writes to
\* self.lines, in the order of the code; an exception leaves the writes made
\* before it
Extract(prm, linetokens, ln) ==
    IF DateRaises(linetokens[1]) THEN [ret |-> "raise", lines |-> ln]
    ELSE
    LET dtnum == date2num(ToOrdinal(linetokens[1].y, linetokens[1].m,
                                    linetokens[1].d), prm.sessionend)
        ln1 == [ln EXCEPT !.datetime = dtnum]
        ln2 == [ln1 EXCEPT !.openinterest = Zero]
    IN  IF \E i \in 2..5 : FloatRaises(linetokens[i])
        THEN [ret |-> "raise", lines |-> ln1]
        ELSE IF FloatRaises(linetokens[6])
        THEN [ret |-> "raise", lines |-> ln2]
        ELSE
        LET sw == SwapCloses(prm, float(linetokens[5]), float(linetokens[6]))
            v == ParseVolume(linetokens[7])
        IN  IF AdjustRaises(prm, sw.c, sw.adjustedclose)
            THEN [ret |-> "raise", lines |-> ln2]
            ELSE
            LET a == Adjust(prm, float(linetokens[2]), float(linetokens[3]),
                            float(linetokens[4]), sw.c, sw.adjustedclose, v)
            IN  [ret |-> "True",
                 lines |-> [ln2 EXCEPT !.open = RoundPrice(prm, a.o),
                                       !.high = RoundPrice(prm, a.h),
                                       !.low = RoundPrice(prm, a.l),
                                       !.close = RoundPrice(prm, a.c),
                                       !.volume = RoundVolume(prm, a.v),
                                       !.adjclose = sw.adjustedclose]]

\* _loadline(linetokens) with the Line Source holding src and self.lines
\* holding ln: the return value (or "raise"), self.lines and the source after
_loadline(prm, linetokens, src, ln) ==
    LET s == NullScan(linetokens, src)
    IN  IF ~s.ok THEN [ret |-> "False", lines |-> ln, src |-> s.src]
        ELSE LET e == Extract(prm, s.linetokens, ln)
             IN  [ret |-> e.ret, lines |-> e.lines, src |-> s.src]

-----------------------------------------------------------------------------
(* The inputs of the CSV feed *)

D1 == DateTok(2020, 1, 2)
D2 == DateTok(2020, 1, 3)
\* 2020-13-01: no such month
DBad == DateTok(2020, 13, 1)

\* 2020-01-02,100,105,95,102,51,2000000
ScenarioB ==
    <<D1, Num(100, 0), Num(105, 0), Num(95, 0), Num(102, 0), Num(51, 0),
      Num(2000000, 0)>>
\* 2020-01-03,10.5,12,8,11.0,11,2.5
Plain ==
    <<D2, Num(105, 1), Num(12, 0), Num(8, 0), Num(110, 1), Num(11, 0),
      Num(25, 1)>>

\* the line with the token of column i (1-based) replaced
WithTok(line, i, tok) == [line EXCEPT ![i] = tok]

\* lines of the null-resolution protocol: null-free lines (two plain ones,
\* one with a non-numeric volume, one with a zero adjusted close, one with a
\* zero close), and lines with the null marker in each column and in two
NullLines ==
    {WithTok(ScenarioB, i, Null) : i \in 2..7}
    \cup {WithTok(WithTok(Plain, 3, Null), 7, Null)}
ProtocolLines ==
    {ScenarioB, Plain, WithTok(Plain, 7, Junk), WithTok(ScenarioB, 6, Num(0, 0)),
     WithTok(Plain, 5, Num(0, 0))}
    \cup NullLines

\* lines of the adjustment arithmetic: open/high/low, close/adjusted close
\* and volume vary independently
OHLTokens ==
    {<<Num(100, 0), Num(105, 0), Num(95, 0)>>,
     <<Num(1005, 3), Num(25, 1), Num(0, 0)>>}
ClosePairs ==
    {<<Num(102, 0), Num(51, 0)>>, <<Num(51, 0), Num(102, 0)>>,
     <<Num(102, 0), Num(102, 0)>>, <<Num(1, 0), Num(3, 0)>>,
     <<Num(1025, 2), Num(41, 1)>>,
     <<Num(0, 0), Num(51, 0)>>, <<Num(51, 0), Num(0, 0)>>,
     <<Num(0, 0), Num(0, 1)>>}
VolumeTokens == {Num(2000000, 0), Num(1000000, 0), Num(25, 1), Num(125, 2), Junk}
AdjLines ==
    {<<D1, t[1], t[2], t[3], c[1], c[2], v>> :
        t \in OHLTokens, c \in ClosePairs, v \in VolumeTokens}
    \cup {WithTok(ScenarioB, 1, DBad), WithTok(ScenarioB, 2, Junk),
          WithTok(ScenarioB, 6, Junk), WithTok(ScenarioB, 7, Null)}

\* sequences of at most n elements of S
RECURSIVE SeqsUpTo(_, _)
SeqsUpTo(S, n) ==
    IF n = 0 THEN {<<>>}
    ELSE LET shorter == SeqsUpTo(S, n - 1)
         IN  shorter \cup {Append(q, x) : q \in {r \in shorter : Len(r) = n - 1}, x \in S}

\* params of YahooFinanceCSVData; sessionend is the second of the day of the
\* base feed's session end
Defaults ==
    [reverse |-> FALSE, adjclose |-> TRUE, adjvolume |-> TRUE, round |-> TRUE,
     decimals |-> 2, roundvolume |-> 0, swapcloses |-> FALSE,
     sessionend |-> 86399]
Params ==
    {[Defaults EXCEPT !.adjclose = a, !.adjvolume = av, !.round = r,
                      !.decimals = dc, !.roundvolume = rv, !.swapcloses = sw] :
        a \in BOOLEAN, av \in BOOLEAN, r \in BOOLEAN, dc \in {0, 2},
        rv \in {0, 1}, sw \in BOOLEAN}
ProtocolParams ==
    {[Defaults EXCEPT !.adjclose = a, !.swapcloses = sw] :
        a \in BOOLEAN, sw \in BOOLEAN}

\* self.lines before the first load: nothing written
NoLines ==
    [datetime |-> NaNDate, open |-> NaN, high |-> NaN, low |-> NaN,
     close |-> NaN, volume |-> NaN, openinterest |-> NaN, adjclose |-> NaN]
NoCall == [linetokens |-> <<>>, src |-> <<>>, prev |-> NoLines]

-----------------------------------------------------------------------------
(* The CSV feed as a state machine *)

InitCSVWith(P, F) ==
    /\ p \in P
    /\ f \in F
    /\ lines = NoLines
    /\ ret = "none"
    /\ call = NoCall

\* the load of the base feed finds the Line Source exhausted: no _loadline
LoadEOF ==
    /\ f = <<>>
    /\ ret' = "False"
    /\ call' = [linetokens |-> <<>>, src |-> <<>>, prev |-> lines]
    /\ UNCHANGED <<p, f, lines>>
    /\ UNCHANGED feedvars

\* the load of the base feed fetches a line and hands it to _loadline
LoadLine ==
    /\ f # <<>>
    /\ LET first == _getnextline(f)
           r == _loadline(p, first.linetokens, first.src, lines)
       IN  /\ f' = r.src
           /\ lines' = r.lines
           /\ ret' = r.ret
           /\ call' = [linetokens |-> first.linetokens, src |-> first.src,
                       prev |-> lines]
    /\ UNCHANGED p
    /\ UNCHANGED feedvars

NextCSV == LoadEOF \/ LoadLine

-----------------------------------------------------------------------------
(* YahooFetcher.fetch_data, Bar and BarSeries *)

\* JSON null
None == [n |-> 1, d |-> 0]

\* datetime.fromtimestamp(ts), as (ordinal day, second of the day); 719163 is
\* the ordinal of 1970-01-01, ToOrdinal(1970, 1, 1)
fromtimestamp(ts) ==
    [ord |-> ToOrdinal(1970, 1, 1) + (ts \div 86400), tod |-> ts % 86400]

\* ohlcv["volume"][i] or 0.0: None and 0 both give 0.0
OrZero(v) == IF v = None \/ v = Zero THEN Zero ELSE v

\* mutant of Incomplete: a null volume makes the position incomplete too
Incomplete_WithVolume(row) ==
    \E k \in {"open", "high", "low", "close", "volume"} : row[k] = None

\* any(ohlcv[k][i] is None for k in ["open", "high", "low", "close"])
Incomplete(row) ==
    \E k \in {"open", "high", "low", "close"} : row[k] = None

\* Bar(timestamp=..., open=..., ..., volume=... or 0.0); openinterest defaults
MakeBar(row) ==
    [timestamp |-> fromtimestamp(row.ts), open |-> row.open, high |-> row.high,
     low |-> row.low, close |-> row.close, volume |-> OrZero(row.volume),
     openinterest |-> Zero]

\* for i, ts in enumerate(timestamps): skip or append
RECURSIVE CollectBars(_)
CollectBars(rows) ==
    IF rows = <<>> THEN <<>>
    ELSE IF Incomplete(Head(rows)) THEN CollectBars(Tail(rows))
    ELSE <<MakeBar(Head(rows))>> \o CollectBars(Tail(rows))

\* mutant of fetch_data: the chart.error field is not looked at
fetch_data_IgnoresError(d, symbol, timeframe) ==
    IF d.status # "ok" THEN [kind |-> "raise"]
    ELSE IF ~d.hasts
    THEN [kind |-> "DataFrame", bars |-> <<>>, symbol |-> "", timeframe |-> ""]
    ELSE [kind |-> "BarSeries", bars |-> CollectBars(d.rows),
          symbol |-> symbol, timeframe |-> timeframe]

\* fetch_data: raises on a failed request or a chart.error; returns an
\* empty pandas DataFrame when the result has no timestamp key; else the
\* BarSeries of the complete positions
fetch_data(d, symbol, timeframe) ==
    IF d.status # "ok" THEN [kind |-> "raise"]
    ELSE IF d.error THEN [kind |-> "raise"]
    ELSE IF ~d.hasts
    THEN [kind |-> "DataFrame", bars |-> <<>>, symbol |-> "", timeframe |-> ""]
    ELSE [kind |-> "BarSeries", bars |-> CollectBars(d.rows),
          symbol |-> symbol, timeframe |-> timeframe]

\* Bar.to_lines
to_lines(bar) ==
    [datetime |-> date2num(bar.timestamp.ord, bar.timestamp.tod),
     open |-> bar.open, high |-> bar.high, low |-> bar.low,
     close |-> bar.close, volume |-> bar.volume, openinterest |-> Zero]

-----------------------------------------------------------------------------
(* YahooFinanceData: start and _load *)

\* self._bars before start(): the attribute does not exist
Unset == [kind |-> "unset"]

\* mutant of start: the index is reset to the first bar instead of before it
start_AtFirst(prm, d, bars, idx) ==
    IF ~prm.fromdate \/ ~prm.todate
    THEN [ret |-> "start-raise", _bars |-> bars, _idx |-> idx, gets |-> 0]
    ELSE LET got == fetch_data(d, prm.dataname, "1d")
         IN  IF got.kind = "raise"
             THEN [ret |-> "start-raise", _bars |-> bars, _idx |-> idx,
                   gets |-> 1]
             ELSE [ret |-> "started", _bars |-> got, _idx |-> 0, gets |-> 1]

\* mutant of start: the series is stored while the fetch has collected its
\* first bar only
start_StoresPartial(prm, d, bars, idx) ==
    IF ~prm.fromdate \/ ~prm.todate
    THEN [ret |-> "start-raise", _bars |-> bars, _idx |-> idx, gets |-> 0]
    ELSE LET got == fetch_data(d, prm.dataname, "1d")
             part == IF got.kind = "BarSeries" /\ Len(got.bars) > 1
                     THEN [got EXCEPT !.bars = SubSeq(@, 1, 1)]
                     ELSE got
         IN  IF got.kind = "raise"
             THEN [ret |-> "start-raise", _bars |-> bars, _idx |-> idx,
                   gets |-> 1]
             ELSE [ret |-> "started", _bars |-> part, _idx |-> -1, gets |-> 1]

\* start(): ValueError without fromdate/todate; a raising fetch leaves the
\* feed as it was; else the result is stored and the index reset.  gets is
\* the number of requests sent: fetch_data awaits self.client.get once
start(prm, d, bars, idx) ==
    IF ~prm.fromdate \/ ~prm.todate
    THEN [ret |-> "start-raise", _bars |-> bars, _idx |-> idx, gets |-> 0]
    ELSE LET got == fetch_data(d, prm.dataname, "1d")
         IN  IF got.kind = "raise"
             THEN [ret |-> "start-raise", _bars |-> bars, _idx |-> idx,
                   gets |-> 1]
             ELSE [ret |-> "started", _bars |-> got, _idx |-> -1, gets |-> 1]

\* mutant of _load: the index wraps to the first bar once it is past the end
_load_Wraps(bars, idx, ln) ==
    LET n == IF bars = Unset THEN 0 ELSE Len(bars.bars)
        i == IF idx >= n THEN 0 ELSE idx + 1
    IN  IF bars = Unset THEN [ret |-> "raise", _idx |-> i, lines |-> ln]
        ELSE IF i >= n THEN [ret |-> "False", _idx |-> i, lines |-> ln]
        ELSE LET bar_dict == to_lines(bars.bars[i + 1])
             IN  [ret |-> "True", _idx |-> i,
                  lines |-> [k \in DOMAIN ln |->
                      IF k \in DOMAIN bar_dict THEN bar_dict[k] ELSE ln[k]]]

\* _load(): the index moves on first; len(self._bars) raises when start()
\* never stored a series
_load(bars, idx, ln) ==
    LET i == idx + 1
    IN  IF bars = Unset THEN [ret |-> "raise", _idx |-> i, lines |-> ln]
        ELSE IF i >= Len(bars.bars) THEN [ret |-> "False", _idx |-> i, lines |-> ln]
        ELSE LET bar_dict == to_lines(bars.bars[i + 1])
             IN  [ret |-> "True", _idx |-> i,
                  lines |-> [k \in DOMAIN ln |->
                      IF k \in DOMAIN bar_dict THEN bar_dict[k] ELSE ln[k]]]

-----------------------------------------------------------------------------
(* The inputs of the API feed *)

Fields == {"open", "high", "low", "close", "volume"}

\* the arrays' entries at one position: timestamp ts, close 9 + ts, and the
\* field named by hole (if any) null
Row(ts, hole) ==
    [ts |-> ts,
     open |-> IF hole = "open" THEN None ELSE Int2Rat(9),
     high |-> IF hole = "high" THEN None ELSE Int2Rat(13),
     low |-> IF hole = "low" THEN None ELSE Int2Rat(8),
     close |-> IF hole = "close" THEN None ELSE Int2Rat(9 + ts),
     volume |-> IF hole = "volume" THEN None ELSE Int2Rat(100 * ts)]

\* position i holds timestamp i (increasing order) or timestamp 1 (a
\* duplicate or a decreasing pair)
RowsAt(i) == {Row(ts, hole) : ts \in {i, 1}, hole \in Fields \cup {"none"}}

RECURSIVE RowSeqs(_)
RowSeqs(n) ==
    IF n = 0 THEN {<<>>}
    ELSE {Append(q, r) : q \in RowSeqs(n - 1), r \in RowsAt(n)}

Documents ==
    {[status |-> "ok", error |-> e, hasts |-> TRUE, rows |-> rs] :
        e \in BOOLEAN, rs \in UNION {RowSeqs(n) : n \in 0..MaxBars}}
    \cup {[status |-> "ok", error |-> FALSE, hasts |-> FALSE, rows |-> <<>>],
          [status |-> "failed", error |-> FALSE, hasts |-> TRUE, rows |-> <<>>]}

FeedParams ==
    {[dataname |-> "NVDA", fromdate |-> fd, todate |-> TRUE] : fd \in BOOLEAN}

NoFeedLines ==
    [datetime |-> NaNDate, open |-> NaN, high |-> NaN, low |-> NaN,
     close |-> NaN, volume |-> NaN, openinterest |-> NaN]
NoHist ==
    [starts |-> 0, loads |-> 0, exhausted |-> FALSE, series |-> Unset,
     requests |-> 0]

-----------------------------------------------------------------------------
(* The API feed as a state machine *)

\* __init__: no series yet, the index before the first bar.  The upstream
\* answers the feed's one request (symbol, fromdate, todate) with doc.
InitFeedWith(D) ==
    /\ fp \in FeedParams
    /\ doc \in (IF fp.fromdate THEN D ELSE {CHOOSE d \in D : d.rows = <<>> /\ ~d.error})
    /\ _bars = Unset
    /\ _idx = -1
    /\ flines = NoFeedLines
    /\ fret = "none"
    /\ fhist = NoHist

Start ==
    /\ fhist.starts < MaxStarts
    /\ LET r == start(fp, doc, _bars, _idx)
       IN  /\ _bars' = r._bars
           /\ _idx' = r._idx
           /\ fret' = r.ret
           /\ fhist' = IF r.ret = "started"
                       THEN [starts |-> fhist.starts + 1, loads |-> 0,
                             exhausted |-> FALSE, series |-> r._bars,
                             requests |-> fhist.requests + r.gets]
                       ELSE [fhist EXCEPT !.starts = @ + 1,
                                          !.requests = @ + r.gets]
    /\ UNCHANGED <<fp, doc, flines>>
    /\ UNCHANGED csvvars

Load ==
    /\ fhist.loads < MaxLoads
    /\ LET r == _load(_bars, _idx, flines)
       IN  /\ _idx' = r._idx
           /\ flines' = r.lines
           /\ fret' = r.ret
           /\ fhist' = [fhist EXCEPT !.loads = @ + 1,
                                     !.exhausted = @ \/ r.ret = "False"]
    /\ UNCHANGED <<fp, doc, _bars>>
    /\ UNCHANGED csvvars

NextFeed == Start \/ Load

-----------------------------------------------------------------------------
(* Specifications *)

CSVIdle == InitCSVWith({Defaults}, {<<>>})
FeedIdle ==
    InitFeedWith({[status |-> "ok", error |-> FALSE, hasts |-> TRUE, rows |-> <<>>]})
    /\ fp.fromdate

\* the null-resolution protocol of the CSV parser over a Line Source of up
\* to MaxLines lines
Init == InitCSVWith(ProtocolParams, SeqsUpTo(ProtocolLines, MaxLines)) /\ FeedIdle
Next == NextCSV
Spec == Init /\ [][Next]_vars

\* the adjustment arithmetic of the CSV parser, one line under every setting
InitAdj == InitCSVWith(Params, {<<l>> : l \in AdjLines}) /\ FeedIdle
SpecAdj == InitAdj /\ [][NextCSV]_vars

\* the API feed: fetch, then the cursor
InitFeed == CSVIdle /\ InitFeedWith(Documents)
SpecFeed == InitFeed /\ [][NextFeed]_vars

-----------------------------------------------------------------------------
(* Vocabulary of the properties of the CSV parser *)

\* the last step was a load that called _loadline
Called == ret # "none" /\ call.linetokens # <<>>

\* the null marker in one of open/high/low/close/adjusted_close
PriceNull(l) == \E i \in 2..6 : l[i] = Null
\* the null marker in any column after the date
AnyNull(l) == PriceNull(l) \/ l[7] = Null

\* the stream without its leading null-containing lines
RECURSIVE Clean(_)
Clean(s) ==
    IF s = <<>> THEN <<>>
    ELSE IF AnyNull(Head(s)) THEN Clean(Tail(s)) ELSE s

\* what the Line Source held when the last load began
Pending == <<call.linetokens>> \o call.src

\* a null-free line with a well-formed date and numeric price tokens
WellFormed(l) ==
    /\ ~AnyNull(l)
    /\ ~DateRaises(l[1])
    /\ \A i \in 2..6 : l[i].k = "num"

\* close and adjusted close of a well-formed line after the optional swap
PostSwapClose(l) == IF p.swapcloses THEN float(l[6]) ELSE float(l[5])
PostSwapAdj(l) == IF p.swapcloses THEN float(l[5]) ELSE float(l[6])

\* the line a load that returned True took its bar from
Emitted == Head(Clean(Pending))

\* raw close over adjusted close, both after the optional swap
Factor(l) == TrueDiv(PostSwapClose(l), PostSwapAdj(l))

\* the volume of the input line, 0.0 for a non-numeric token
InVolume(l) == IF l[7].k = "num" THEN float(l[7]) ELSE Zero

\* half a unit of the last decimal kept by the price and the volume rounding
PriceTol == Norm(1, 2 * Pow10(p.decimals))
VolumeTol == Norm(1, 2 * Pow10(p.roundvolume))

\* out is exact, up to the rounding of prices when round is enabled
PriceNear(out, exact) ==
    IF p.round THEN RLeq(RAbs(RSub(out, exact)), PriceTol) ELSE out = exact

\* out * factor is in, up to the rounding of out when round is enabled
ScaledNear(out, factor, in) ==
    IF p.round
    THEN RLeq(RAbs(RSub(RMul(out, factor), in)), RMul(RAbs(factor), PriceTol))
    ELSE RMul(out, factor) = in

\* out is exact, up to the rounding of the volume
VolumeNear(out, exact) == RLeq(RAbs(RSub(out, exact)), VolumeTol)

\* the line with its close and adjusted_close columns exchanged
Exchange(l) == [l EXCEPT ![5] = l[6], ![6] = l[5]]

-----------------------------------------------------------------------------
(* Properties *)

\* C1: a load whose line holds the null marker in open, high, low, close or
\* adjusted_close discards that line and every following null-containing
\* line, and its outcome (return value, emitted record, position of the Line
\* Source) is the outcome of extracting the first subsequent null-free line
\* alone, as if the discarded lines had never been in the stream; when no
\* null-free line follows it returns False and writes nothing.
C1_NullLinesSkipped ==
    (Called /\ PriceNull(call.linetokens)) =>
        LET s == Clean(Pending)
        IN  IF s = <<>>
            THEN ret = "False" /\ lines = call.prev /\ f = <<>>
            ELSE LET e == Extract(p, Head(s), call.prev)
                 IN  ret = e.ret /\ lines = e.lines /\ f = Tail(s)

\* two null-containing lines were discarded and the third line gave the bar
C1_Witness ==
    /\ Called
    /\ PriceNull(call.linetokens)
    /\ Len(call.src) >= 2
    /\ PriceNull(call.src[1])
    /\ ret = "True"
    /\ f = Tail(Tail(call.src))

\* C4 (as claimed): a line whose only null marker is the volume is not
\* discarded: the load emits the bar of that line with volume 0.0 and fetches
\* no further line.
C4_VolumeNullKept ==
    (Called /\ WellFormed(WithTok(call.linetokens, 7, Num(0, 0)))
            /\ call.linetokens[7] = Null
            /\ PostSwapAdj(call.linetokens) # Zero
            /\ PostSwapClose(call.linetokens) # Zero) =>
        /\ ret = "True"
        /\ lines.volume = Zero
        /\ f = call.src

\* C5: a null-free line whose post-swap adjusted close is zero makes the
\* load raise: no bar is returned, no further line is fetched from the Line
\* Source, and the outcome is not the end-of-stream False.
C5_ZeroAdjRaises ==
    (Called /\ WellFormed(call.linetokens)
            /\ PostSwapAdj(call.linetokens) = Zero) =>
        /\ ret = "raise"
        /\ f = call.src

\* a zero adjusted close was rejected with lines still waiting in the source
C5_Witness ==
    /\ Called
    /\ WellFormed(call.linetokens)
    /\ PostSwapAdj(call.linetokens) = Zero
    /\ ret = "raise"
    /\ call.src # <<>>
    /\ f = call.src

\* C6 (as claimed): every null-free line with a well-formed date, numeric
\* price tokens and a non-zero post-swap adjusted close gives a bar under
\* every configuration, a zero raw close included: the load raises nothing.
C6_OnlyZeroAdjAborts ==
    (Called /\ WellFormed(call.linetokens)
            /\ PostSwapAdj(call.linetokens) # Zero) =>
        ret = "True"

\* C7 (as claimed): with adjclose enabled the emitted close is the token of
\* the adjusted_close column of the line, up to rounding, under every setting
\* of the other options.
C7_CloseIsAdjColumn ==
    (Called /\ ret = "True" /\ p.adjclose) =>
        PriceNear(lines.close, float(Emitted[6]))

\* C7 (amended): with adjclose enabled the emitted close is the post-swap
\* adjusted close, up to rounding: the adjusted_close column with swapcloses
\* disabled, the close column with swapcloses enabled.
C7_CloseIsPostSwapAdj ==
    (Called /\ ret = "True" /\ p.adjclose) =>
        PriceNear(lines.close, PostSwapAdj(Emitted))

\* a bar emitted with adjclose and swapcloses enabled from a line whose two
\* closes differ
C7_Witness ==
    /\ Called
    /\ ret = "True"
    /\ p.adjclose
    /\ p.swapcloses
    /\ float(Emitted[5]) # float(Emitted[6])
    /\ lines.close = RoundPrice(p, float(Emitted[5]))

\* C8: with adjclose enabled the emitted open, high and low are the input
\* open, high and low divided by factor = raw close / adjusted close (the
\* pair taken after the optional swap): out * factor = in within the rounding
\* tolerance; the line 2020-01-02,100,105,95,102,51,2000000 gives factor 2,
\* open 50, high 52.5, low 47.5, close 51 (each up to rounding) and, with
\* adjvolume, volume 4000000.
C8_PricesDividedByFactor ==
    (Called /\ ret = "True" /\ p.adjclose) =>
        LET l == Emitted
            factor == Factor(l)
        IN  /\ ScaledNear(lines.open, factor, float(l[2]))
            /\ ScaledNear(lines.high, factor, float(l[3]))
            /\ ScaledNear(lines.low, factor, float(l[4]))
            /\ ~p.swapcloses => factor = TrueDiv(float(l[5]), float(l[6]))
            /\ (l = ScenarioB /\ ~p.swapcloses) =>
                /\ factor = Int2Rat(2)
                /\ PriceNear(lines.open, Int2Rat(50))
                /\ PriceNear(lines.high, Norm(105, 2))
                /\ PriceNear(lines.low, Norm(95, 2))
                /\ PriceNear(lines.close, Int2Rat(51))
                /\ p.adjvolume => lines.volume = Int2Rat(4000000)

\* the scenario line under adjclose and adjvolume, two decimals kept
C8_Witness ==
    /\ Called
    /\ ret = "True"
    /\ p.adjclose /\ p.adjvolume /\ ~p.swapcloses
    /\ p.round /\ p.decimals = 2
    /\ Emitted = ScenarioB
    /\ lines.open = Int2Rat(50)
    /\ lines.high = Norm(105, 2)
    /\ lines.low = Norm(95, 2)
    /\ lines.volume = Int2Rat(4000000)

\* C9 (as claimed): under every setting of the other options the emitted
\* volume is input volume * factor when adjvolume is enabled and the input
\* volume when it is disabled, up to the volume rounding.
C9_VolumeFollowsAdjvolume ==
    (Called /\ ret = "True") =>
        LET l == Emitted
        IN  IF p.adjvolume
            THEN VolumeNear(lines.volume, RMul(InVolume(l), Factor(l)))
            ELSE VolumeNear(lines.volume, InVolume(l))

\* C9 (amended): the emitted volume is input volume * factor when adjclose
\* and adjvolume are both enabled, and the input volume otherwise (adjvolume
\* disabled, or adjclose disabled whatever adjvolume is), up to the volume
\* rounding.
C9_VolumeAdjustedUnderBoth ==
    (Called /\ ret = "True") =>
        LET l == Emitted
        IN  IF p.adjclose /\ p.adjvolume
            THEN VolumeNear(lines.volume, RMul(InVolume(l), Factor(l)))
            ELSE VolumeNear(lines.volume, InVolume(l))

\* adjvolume enabled with adjclose disabled: the volume is left alone although
\* the factor is not 1
C9_Witness ==
    /\ Called
    /\ ret = "True"
    /\ ~p.adjclose /\ p.adjvolume
    /\ Factor(Emitted) = Int2Rat(2)
    /\ InVolume(Emitted) = Int2Rat(2000000)
    /\ lines.volume = Int2Rat(2000000)

\* C10: a load with swapcloses enabled on a well-formed line has the outcome
\* (return value or raise, every output field, position of the Line Source)
\* of a load with swapcloses disabled, all other options equal, on that line
\* with its close and adjusted_close columns exchanged.
C10_SwapIsInvolution ==
    (Called /\ p.swapcloses /\ WellFormed(call.linetokens)) =>
        LET r == _loadline([p EXCEPT !.swapcloses = FALSE],
                           Exchange(call.linetokens), call.src, call.prev)
        IN  ret = r.ret /\ lines = r.lines /\ f = r.src

\* a bar emitted with swapcloses enabled from a line whose two closes differ
C10_Witness ==
    /\ Called
    /\ p.swapcloses
    /\ WellFormed(call.linetokens)
    /\ float(call.linetokens[5]) # float(call.linetokens[6])
    /\ ret = "True"
    /\ lines.adjclose = float(call.linetokens[5])

-----------------------------------------------------------------------------
(* Vocabulary of the properties of the API feed *)

\* the last step was a _load call
Loaded == fret \in {"True", "False", "raise"}

\* the bars of the series the last successful start() fetched
Series == fhist.series.bars

\* the record that exposes bar b
Exposes(rec, b) ==
    /\ rec.datetime = [int |-> b.timestamp.ord, frac |-> Norm(b.timestamp.tod, 86400)]
    /\ rec.open = b.open
    /\ rec.high = b.high
    /\ rec.low = b.low
    /\ rec.close = b.close
    /\ rec.volume = b.volume
    /\ rec.openinterest = Zero

\* C2: start() leaves the cursor before the first bar; over the series of n
\* bars it fetched, the i-th _load after it succeeds for 1 <= i <= n and
\* exposes bar i-1 of the series (the index is i-1), and every call after
\* the n-th, the first one over an empty series included, reports no more
\* data.
C2_CursorWalksSeries ==
    /\ fret = "started" => _idx = -1
    /\ (Loaded /\ fhist.series # Unset) =>
        LET n == Len(Series)
            i == fhist.loads
        IN  /\ i <= n => /\ fret = "True"
                         /\ _idx = i - 1
                         /\ Exposes(flines, Series[i])
            /\ i > n => fret = "False"

\* the second bar of a series of at least two bars is exposed by the second
\* call
C2_Witness ==
    /\ Loaded
    /\ fhist.series # Unset
    /\ Len(Series) >= 2
    /\ fhist.loads = 2
    /\ fret = "True"
    /\ Series[1] # Series[2]
    /\ Exposes(flines, Series[2])

\* C3: once a _load has reported no more data, every later _load made before
\* the feed is started again reports no more data and leaves every field of
\* the exposed record as it was; the index only grows, so no earlier bar is
\* reached again.
C3_ExhaustedStays ==
    [][(fhist.exhausted /\ fhist'.loads = fhist.loads + 1) =>
          /\ fret' = "False"
          /\ flines' = flines
          /\ _idx' = _idx + 1
          /\ _idx' >= Len(Series)]_vars

\* a second exhausted call over a non-empty series
C3_Witness ==
    /\ fhist.exhausted
    /\ fret = "False"
    /\ Len(Series) >= 1
    /\ fhist.loads >= Len(Series) + 2
    /\ Exposes(flines, Series[Len(Series)])

-----------------------------------------------------------------------------
(* Vocabulary of the properties of fetch_data *)

\* the last successful start() stored what fetch_data returned for doc
Fetched == fhist.series # Unset

\* the positions of the timestamp array with open, high, low and close present
KeptPositions(rows) ==
    {i \in 1..Len(rows) :
        /\ rows[i].open # None
        /\ rows[i].high # None
        /\ rows[i].low # None
        /\ rows[i].close # None}

\* the place in the series of the bar of kept position i
Rank(rows, i) == Cardinality({k \in KeptPositions(rows) : k <= i})

\* bar b is the bar of the array entries row
BarOf(b, row) ==
    /\ b.timestamp.ord = 719163 + (row.ts \div 86400)
    /\ b.timestamp.tod = row.ts % 86400
    /\ b.open = row.open
    /\ b.high = row.high
    /\ b.low = row.low
    /\ b.close = row.close
    /\ b.volume = (IF row.volume = None THEN Zero ELSE row.volume)
    /\ b.openinterest = Zero

\* C11: for a document with a timestamp array fetch_data returns a BarSeries
\* with one bar for exactly the positions at which open, high, low and close
\* are all non-null, in array order; a null volume drops no position and
\* becomes 0.0; the series carries the caller's symbol and timeframe;
\* timestamp=[1,2,3] with close=[10,null,12] gives the two bars of positions
\* 0 and 2.
C11_SeriesIsCompletePositions ==
    (Fetched /\ doc.hasts) =>
        LET s == fhist.series
            kept == KeptPositions(doc.rows)
        IN  /\ s.kind = "BarSeries"
            /\ Len(s.bars) = Cardinality(kept)
            /\ \A i \in kept : BarOf(s.bars[Rank(doc.rows, i)], doc.rows[i])
            /\ s.symbol = fp.dataname
            /\ s.timeframe = "1d"
            /\ doc.rows = <<Row(1, "none"), Row(2, "close"), Row(3, "none")>> =>
                /\ Len(s.bars) = 2
                /\ s.bars[1].close = Int2Rat(10)
                /\ s.bars[2].close = Int2Rat(12)

\* a series of two bars from three positions, the middle one with a null
\* close and the last one with a null volume
C11_Witness ==
    /\ Fetched
    /\ doc.hasts
    /\ Len(doc.rows) = 3
    /\ doc.rows[2].close = None
    /\ doc.rows[3].volume = None
    /\ Len(fhist.series.bars) = 2
    /\ fhist.series.bars[2].volume = Zero
    /\ fhist.series.bars[2].timestamp.tod = 3

\* timestamp a is earlier than timestamp b
Earlier(a, b) == a.ord < b.ord \/ (a.ord = b.ord /\ a.tod < b.tod)

\* C12 (as claimed): every series fetch_data returns is ordered by strictly
\* increasing bar timestamp, whatever the document: a timestamp array with a
\* duplicate or a decreasing pair never gives a stored series out of order.
C12_SeriesStrictlyIncreasing ==
    Fetched =>
        \A i, j \in 1..Len(fhist.series.bars) :
            i < j => Earlier(fhist.series.bars[i].timestamp,
                             fhist.series.bars[j].timestamp)

\* C13 (as claimed): a result without a timestamp array makes fetch_data
\* return an empty BarSeries, a value like the one of the normal path (zero
\* bars, the caller's symbol and timeframe), and a cursor started over it
\* reports no more data on its first _load.
C13_NoTimestampGivesEmptySeries ==
    (Fetched /\ ~doc.hasts) =>
        /\ fhist.series.kind = "BarSeries"
        /\ fhist.series.bars = <<>>
        /\ fhist.series.symbol = fp.dataname
        /\ fhist.series.timeframe = "1d"
        /\ (Loaded /\ fhist.loads = 1) => fret = "False"

\* C14: a document with a non-empty chart.error makes fetch_data raise,
\* whatever arrays the document holds: start() stores no series, no bar is
\* ever exposed, and each start() sends exactly one request (no retry).
C14_ErrorDocumentRaises ==
    (doc.status = "ok" /\ doc.error) =>
        /\ fret \in {"none", "start-raise", "raise"}
        /\ _bars = Unset
        /\ ~Fetched
        /\ flines = NoFeedLines
        /\ fhist.requests = fhist.starts

\* an error document with complete positions in its arrays was refused
C14_Witness ==
    /\ doc.status = "ok"
    /\ doc.error
    /\ KeptPositions(doc.rows) # {}
    /\ fret = "start-raise"
    /\ fhist.requests = 1
    /\ _bars = Unset

-----------------------------------------------------------------------------
(* Further properties of the CSV parser *)

\* C15: when the Line Source is exhausted while null-containing lines are
\* being resolved (the line of the call and every line after it hold a null
\* marker), the load returns False: it raises nothing, emits no bar and
\* leaves every output field as it was.
C15_ExhaustionIsCleanEnd ==
    (Called /\ Clean(Pending) = <<>>) =>
        /\ ret = "False"
        /\ lines = call.prev
        /\ f = <<>>

\* after an emitted bar, a load met two null-containing lines and the end of
\* the source
C15_Witness ==
    /\ Called
    /\ Clean(Pending) = <<>>
    /\ Len(call.src) >= 1
    /\ ret = "False"
    /\ call.prev # NoLines
    /\ lines = call.prev

\* the number of leading null-containing lines of the stream
RECURSIVE NullPrefix(_)
NullPrefix(s) ==
    IF s = <<>> THEN 0
    ELSE IF AnyNull(Head(s)) THEN 1 + NullPrefix(Tail(s)) ELSE 0

\* C16: every load ends with an outcome, having fetched one line for each
\* null-containing line it discarded and none past the first null-free line:
\* the source is left holding exactly the lines after the line the load
\* ended on, and the next load starts on the first of them, so no line is
\* consumed twice or lost.
C16_ParserStaysSynchronized ==
    /\ [](Called =>
            LET k == NullPrefix(Pending)
                n == Len(Pending)
            IN  /\ ret \in {"True", "False", "raise"}
                /\ f = (IF k < n THEN SubSeq(Pending, k + 2, n) ELSE <<>>)
                /\ Len(call.src) - Len(f) = (IF k < n THEN k ELSE n - 1))
    /\ [][(call' # call /\ call'.linetokens # <<>>) =>
            <<call'.linetokens>> \o call'.src = f]_vars

\* a load discarded one null-containing line, took the next line and left
\* the line after it in the source
C16_Witness ==
    /\ Called
    /\ NullPrefix(Pending) = 1
    /\ Len(Pending) = 3
    /\ ret = "True"
    /\ f = <<Pending[3]>>

\* C17 (as claimed): a load that rejects a line for its zero post-swap
\* adjusted close leaves every output field (datetime, open, high, low,
\* close, volume, openinterest, adjclose) as it was before the call.
C17_RejectionWritesNothing ==
    (Called /\ WellFormed(call.linetokens)
            /\ PostSwapAdj(call.linetokens) = Zero
            /\ ret = "raise") =>
        lines = call.prev

\* the prices and the volume of line l after the adjustment, before rounding
ExactPrice(l, i) ==
    IF p.adjclose THEN TrueDiv(float(l[i]), Factor(l)) ELSE float(l[i])
ExactClose(l) == IF p.adjclose THEN PostSwapAdj(l) ELSE PostSwapClose(l)
ExactVolume(l) ==
    IF p.adjclose /\ p.adjvolume THEN RMul(InVolume(l), Factor(l))
    ELSE InVolume(l)

\* none of open, high, low, close is rounded when round is disabled
PricesUnrounded ==
    /\ lines.open = ExactPrice(Emitted, 2)
    /\ lines.high = ExactPrice(Emitted, 3)
    /\ lines.low = ExactPrice(Emitted, 4)
    /\ lines.close = ExactClose(Emitted)

\* x has at most nd decimals
HasDecimals(x, nd) == Norm(x.n * Pow10(nd), x.d).d = 1

\* out is exact rounded to nd decimals, a tie going to the even neighbour
RoundedTo(out, exact, nd) ==
    LET tol == Norm(1, 2 * Pow10(nd))
        err == RAbs(RSub(out, exact))
    IN  /\ HasDecimals(out, nd)
        /\ RLeq(err, tol)
        /\ err = tol => Norm(out.n * Pow10(nd), out.d).n % 2 = 0

\* C18 (as claimed): with round disabled none of open, high, low, close is
\* rounded, and with roundvolume at its default 0 the emitted volume equals
\* the (adjusted) volume exactly, fractional part included, whether round is
\* enabled or not.
C18_DefaultVolumeUnrounded ==
    (Called /\ ret = "True") =>
        /\ ~p.round => PricesUnrounded
        /\ p.roundvolume = 0 => lines.volume = ExactVolume(Emitted)

\* C18 (amended): with round disabled none of open, high, low, close is
\* rounded; the emitted volume is the (adjusted) volume rounded to
\* roundvolume decimals, whether round is enabled or not: at the default 0
\* it is the nearest integer, a tie going to the even one.
C18_VolumeAlwaysRounded ==
    (Called /\ ret = "True") =>
        /\ ~p.round => PricesUnrounded
        /\ RoundedTo(lines.volume, ExactVolume(Emitted), p.roundvolume)

\* round disabled and roundvolume 0: a volume of 2.5 is emitted as 2 beside
\* an unrounded open of 1.005
C18_Witness ==
    /\ Called
    /\ ret = "True"
    /\ ~p.round /\ p.roundvolume = 0
    /\ ExactVolume(Emitted) = Norm(5, 2)
    /\ lines.volume = Int2Rat(2)
    /\ lines.open = Norm(1005, 1000)

\* C19: with adjclose disabled no adjustment is applied whatever adjvolume
\* is: the emitted open, high, low and volume are the input line's values and
\* the emitted close is the post-swap raw close, apart from rounding; the
\* volume differs from the input volume (apart from rounding) only when
\* adjclose and adjvolume are both enabled.
C19_NoAdjustmentWithoutAdjclose ==
    (Called /\ ret = "True") =>
        LET l == Emitted
        IN  /\ ~p.adjclose =>
                /\ PriceNear(lines.open, float(l[2]))
                /\ PriceNear(lines.high, float(l[3]))
                /\ PriceNear(lines.low, float(l[4]))
                /\ PriceNear(lines.close, PostSwapClose(l))
                /\ VolumeNear(lines.volume, InVolume(l))
            /\ ~VolumeNear(lines.volume, InVolume(l)) =>
                p.adjclose /\ p.adjvolume

\* adjclose disabled on a line whose factor is 2: prices and volume are the
\* input's, the close is the raw close
C19_Witness ==
    /\ Called
    /\ ret = "True"
    /\ ~p.adjclose /\ ~p.swapcloses
    /\ Factor(Emitted) = Int2Rat(2)
    /\ lines.open = Int2Rat(100)
    /\ lines.high = Int2Rat(105)
    /\ lines.low = Int2Rat(95)
    /\ lines.close = Int2Rat(102)
    /\ lines.volume = Int2Rat(1000000)

-----------------------------------------------------------------------------
(* Production and consumption of the series *)

\* C20: start() returns with the whole result of the fetch stored; no _load
\* returns a bar or writes a field before a series is stored; and the
\* series the _load calls read is the one the last start() stored: no _load
\* changes it.
C20_ProductionBeforeConsumption ==
    /\ [](/\ fret = "started" =>
                /\ _bars = fetch_data(doc, fp.dataname, "1d")
                /\ doc.hasts =>
                    Len(_bars.bars) = Cardinality(KeptPositions(doc.rows))
          /\ ~Fetched => (fret \notin {"True", "False"} /\ flines = NoFeedLines)
          /\ Fetched => _bars = fhist.series)
    /\ [][fhist'.loads = fhist.loads + 1 => _bars' = _bars]_vars

\* the second bar of a series of three is read after a second start()
C20_Witness ==
    /\ Fetched
    /\ fhist.starts = 2
    /\ fhist.loads = 2
    /\ Len(Series) = 3
    /\ fret = "True"
    /\ _bars = fhist.series
    /\ Exposes(flines, Series[2])

=============================================================================
